---- MODULE Spec2Model ----
(***************************************************************************)
(* A model of advanced-vector/vector.h: RawMemory<T> (a raw storage block) *)
(* and Vector<T> (a growable sequence built on it).                        *)
(*                                                                         *)
(* Memory is a heap of blocks.  A block is a sequence of slots; a slot is  *)
(* Uninit (raw memory, no object) or holds an element value.  An element   *)
(* that has been moved from is still a live object and holds MovedFrom.    *)
(* Every handler is one atomic action.  An element operation that may      *)
(* throw is chosen by the input `f`: the f-th throwing-capable step of the *)
(* handler throws (0: none does).  A throwing element operation leaves its *)
(* operands as they were.                                                  *)
(***************************************************************************)
EXTENDS Integers, Sequences, FiniteSets, TLC

\* ------------------------------------------------------------------ bounds
MaxSlots == 4
MaxAppends == 8

\* ------------------------------------------------------- the modelled world
Vecs == {"a", "b"}
Values == {1, 2}
Uninit == -1
MovedFrom == 0
DefaultValue == 0
Null == 0
Blocks == 1..(Cardinality(Vecs) + 1)

\* The element types T the container is instantiated with: whether T's move
\* constructor is noexcept, whether T's move assignment is noexcept, whether
\* T is copy-constructible.
Kinds ==
    { [nothrowMove |-> TRUE,  nothrowAssign |-> TRUE,  copyable |-> TRUE],
      [nothrowMove |-> FALSE, nothrowAssign |-> FALSE, copyable |-> TRUE],
      [nothrowMove |-> FALSE, nothrowAssign |-> FALSE, copyable |-> FALSE] }

VARIABLES
    alive,      \* alive[v]: the Vector object v exists (constructed, not destroyed)
    buf,        \* buf[v]: data_.buffer_ of v (a block, or Null)
    cap,        \* cap[v]: data_.capacity_ of v
    size,       \* size[v]: size_ of v
    heap,       \* heap[b]: the slots of block b; <<>> when b is not allocated
    kind,       \* the element type T
    last,       \* the last operation: its name, whether it threw and at which
                \* step, its branch, and
                \* whether it released or reused an element's storage without
                \* destroying the element
    relocs,     \* instrumentation: elements relocated into a new block by appends
    appends     \* instrumentation: successful appends

vars == <<alive, buf, cap, size, heap, kind, last, relocs, appends>>

\* ------------------------------------------------------------ pure helpers
Max(x, y) == IF x >= y THEN x ELSE y
Min(x, y) == IF x <= y THEN x ELSE y

\* The memory as one value, threaded through the steps of a handler; leaked
\* turns TRUE when a step breaks the lifetime of an element or of a block: it
\* releases or reuses the storage of a live element, destroys a slot that
\* holds no element, or releases a block that is not allocated.  made and
\* gone count the elements the handler constructed and destroyed.
MemOf(h) == [heap |-> h, leaked |-> FALSE, made |-> 0, gone |-> 0]

Mem == MemOf(heap)

IsLive(c) == c # Uninit

\* The element sequence of v: slots [0, size) of its block.
Elems(v) == [i \in 1..size[v] |-> heap[buf[v]][i]]

\* RawMemory::Allocate: nullptr for n = 0, otherwise a block not in use.
Allocate(m, n) ==
    IF n = 0 THEN Null
    ELSE CHOOSE b \in Blocks :
            /\ m.heap[b] = <<>>
            /\ \A c \in Blocks : m.heap[c] = <<>> => b <= c

\* The memory after RawMemory(n): the block holds n raw slots.
AllocMem(m, n) ==
    IF n = 0 THEN m
    ELSE [m EXCEPT !.heap[Allocate(m, n)] = [i \in 1..n |-> Uninit]]

\* RawMemory::Deallocate (operator delete): the block goes away with whatever
\* its slots hold; no object in it is destroyed.
Deallocate(m, b) ==
    IF b = Null THEN m
    ELSE [m EXCEPT !.heap[b] = <<>>,
                   !.leaked = \/ m.leaked
                              \/ m.heap[b] = <<>>
                              \/ \E i \in 1..Len(m.heap[b]) : IsLive(m.heap[b][i])]

\* std::construct_at on slot i (0-based) of block b.
ConstructAt(m, b, i, val) ==
    [m EXCEPT !.heap[b][i + 1] = val,
              !.leaked = m.leaked \/ IsLive(m.heap[b][i + 1]),
              !.made = m.made + 1]

\* std::destroy_at on slot i of block b.
DestroyAt(m, b, i) ==
    [m EXCEPT !.heap[b][i + 1] = Uninit,
              !.leaked = m.leaked \/ ~IsLive(m.heap[b][i + 1]),
              !.gone = m.gone + 1]

\* std::destroy_n / std::destroy on slots [first, first + n) of block b.
RECURSIVE DestroyN(_, _, _, _)
DestroyN(m, b, first, n) ==
    IF n <= 0 THEN m
    ELSE DestroyN(DestroyAt(m, b, first), b, first + 1, n - 1)

\* T::operator=(T&&) from slot s to slot d of block b.
MoveAssignSlot(m, b, s, d) ==
    [m EXCEPT !.heap[b] = [@ EXCEPT ![d + 1] = m.heap[b][s + 1], ![s + 1] = MovedFrom]]

\* T::operator=(const T&) from slot s of block sb to slot d of block db.
CopyAssignSlot(m, sb, s, db, d) ==
    [m EXCEPT !.heap[db][d + 1] = m.heap[sb][s + 1]]

\* T(T&&) from slot s of block sb into raw slot d of block db.
MoveConstruct(m, sb, s, db, d) ==
    LET c == ConstructAt(m, db, d, m.heap[sb][s + 1])
    IN  [c EXCEPT !.heap[sb][s + 1] = MovedFrom]

\* T(const T&) from slot s of block sb into raw slot d of block db.
CopyConstruct(m, sb, s, db, d) == ConstructAt(m, db, d, m.heap[sb][s + 1])

\* The first n constructions of std::uninitialized_copy_n.
RECURSIVE ConstructCopies(_, _, _, _, _, _)
ConstructCopies(m, sb, s, db, d, n) ==
    IF n <= 0 THEN m
    ELSE ConstructCopies(CopyConstruct(m, sb, s, db, d), sb, s + 1, db, d + 1, n - 1)

\* The first n constructions of std::uninitialized_move_n.
RECURSIVE ConstructMoves(_, _, _, _, _, _)
ConstructMoves(m, sb, s, db, d, n) ==
    IF n <= 0 THEN m
    ELSE ConstructMoves(MoveConstruct(m, sb, s, db, d), sb, s + 1, db, d + 1, n - 1)

\* The first n constructions of std::uninitialized_value_construct_n.
RECURSIVE ConstructDefaults(_, _, _, _)
ConstructDefaults(m, db, d, n) ==
    IF n <= 0 THEN m
    ELSE ConstructDefaults(ConstructAt(m, db, d, DefaultValue), db, d + 1, n - 1)

\* Whether the t-th of n element operations throws.
Throws(t, n) == t \in 1..n

\* A faulty variant: the copies made before a throw are left in place.
UninitializedCopyNoRollback(m, sb, s, n, db, d, t) ==
    IF Throws(t, n) THEN ConstructCopies(m, sb, s, db, d, t - 1)
    ELSE ConstructCopies(m, sb, s, db, d, n)

\* std::uninitialized_copy_n(src + s, n, dst + d) where the t-th copy throws
\* (none when t is not in 1..n): on a throw the copies made are destroyed.
UninitializedCopyN(m, sb, s, n, db, d, t) ==
    IF Throws(t, n)
    THEN DestroyN(ConstructCopies(m, sb, s, db, d, t - 1), db, d, t - 1)
    ELSE ConstructCopies(m, sb, s, db, d, n)

\* std::uninitialized_move_n, likewise; the sources already moved from stay so.
UninitializedMoveN(m, sb, s, n, db, d, t) ==
    IF Throws(t, n)
    THEN DestroyN(ConstructMoves(m, sb, s, db, d, t - 1), db, d, t - 1)
    ELSE ConstructMoves(m, sb, s, db, d, n)

\* A faulty variant: the elements made before a throw are left in place.
UninitializedValueConstructNoRollback(m, db, d, n, t) ==
    IF Throws(t, n) THEN ConstructDefaults(m, db, d, t - 1)
    ELSE ConstructDefaults(m, db, d, n)

\* std::uninitialized_value_construct_n, likewise.
UninitializedValueConstructN(m, db, d, n, t) ==
    IF Throws(t, n)
    THEN DestroyN(ConstructDefaults(m, db, d, t - 1), db, d, t - 1)
    ELSE ConstructDefaults(m, db, d, n)

\* std::copy of n elements (copy assignment, front to back); stops at a throw.
RECURSIVE CopyN(_, _, _, _, _, _, _)
CopyN(m, sb, s, n, db, d, t) ==
    IF n <= 0 \/ t = 1 THEN m
    ELSE CopyN(CopyAssignSlot(m, sb, s, db, d), sb, s + 1, n - 1, db, d + 1,
               IF t = 0 THEN 0 ELSE t - 1)

\* std::move of [s, s + n) to d (move assignment, front to back); stops at a throw.
RECURSIVE MoveN(_, _, _, _, _, _)
MoveN(m, b, s, n, d, t) ==
    IF n <= 0 \/ t = 1 THEN m
    ELSE MoveN(MoveAssignSlot(m, b, s, d), b, s + 1, n - 1, d + 1,
               IF t = 0 THEN 0 ELSE t - 1)

\* A faulty variant: the shift to the right runs front to back.
MoveForwardN(m, b, s, n, dlast, t) == MoveN(m, b, s, n, dlast - n, t)

\* std::move_backward of [s, s + n) to the range ending at dlast (move
\* assignment, back to front); stops at a throw.
RECURSIVE MoveBackwardN(_, _, _, _, _, _)
MoveBackwardN(m, b, s, n, dlast, t) ==
    IF n <= 0 \/ t = 1 THEN m
    ELSE MoveBackwardN(MoveAssignSlot(m, b, s + n - 1, dlast - 1), b, s, n - 1,
                       dlast - 1, IF t = 0 THEN 0 ELSE t - 1)

\* ------------------------------------------------------- Vector<T>, by value
\* A handler works on the record of one Vector and the memory, and returns the
\* record after it: threw says an exception left the handler, path names the
\* branch taken, relocated counts the elements constructed in a new block
\* from existing ones, ret is the iterator returned (by Emplace, Insert and
\* Erase).
Cursor(b, i) == [block |-> b, index |-> i]

St(v) ==
    [buf |-> buf[v], cap |-> cap[v], size |-> size[v], mem |-> Mem,
     threw |-> FALSE, at |-> "none", path |-> "none", relocated |-> 0,
     ret |-> Cursor(Null, 0)]

\* The element sequence of the Vector in the record r.
ElemsOf(r) == [i \in 1..r.size |-> r.mem.heap[r.buf][i]]

\* The record after an exception left the handler at step `at` of branch p.
Thrown(s, m, p, at) == [s EXCEPT !.mem = m, !.threw = TRUE, !.path = p, !.at = at]

\* if constexpr (is_nothrow_move_constructible_v<T> || !is_copy_constructible_v<T>)
UseMove == kind.nothrowMove \/ ~kind.copyable

\* The relocation step that throws: a noexcept move constructor never does.
RelocThrow(t) == IF UseMove /\ kind.nothrowMove THEN 0 ELSE t

\* A faulty variant: the relocation moves whatever the element type is.
RelocateByMove(m, sb, s, n, db, d, t) == UninitializedMoveN(m, sb, s, n, db, d, t)

\* The relocation of n elements into a new block, by the policy above.
Relocate(m, sb, s, n, db, d, t) ==
    IF UseMove THEN UninitializedMoveN(m, sb, s, n, db, d, t)
    ELSE UninitializedCopyN(m, sb, s, n, db, d, t)

\* A faulty variant: the new capacity is rounded up to twice the old one.
ReserveRounded(s, n, f) ==
    LET nc == Max(n, 2 * s.cap)
        nb == Allocate(s.mem, nc)
        m1 == AllocMem(s.mem, nc)
        m2 == Relocate(m1, s.buf, 0, s.size, nb, 0, 0)
        m3 == DestroyN(m2, s.buf, 0, s.size)
    IN  IF n <= s.cap THEN [s EXCEPT !.path = "noop"]
        ELSE IF f # 0 THEN Thrown(s, s.mem, "grow", "allocate")
        ELSE [s EXCEPT !.buf = nb, !.cap = nc, !.mem = Deallocate(m3, s.buf),
                       !.path = "grow", !.relocated = s.size]

\* Vector::Reserve(new_capacity); step 1 is the allocation, steps 2.. are the
\* relocations.
Reserve(s, n, f) ==
    LET nb == Allocate(s.mem, n)
        m1 == AllocMem(s.mem, n)
        t  == RelocThrow(f - 1)
        m2 == Relocate(m1, s.buf, 0, s.size, nb, 0, t)
        m3 == DestroyN(m2, s.buf, 0, s.size)
    IN  IF n <= s.cap THEN [s EXCEPT !.path = "noop"]
        ELSE IF f = 1 THEN Thrown(s, s.mem, "grow", "allocate")
        ELSE IF Throws(t, s.size) THEN Thrown(s, Deallocate(m2, nb), "grow", "relocate")
        ELSE [s EXCEPT !.buf = nb, !.cap = n, !.mem = Deallocate(m3, s.buf),
                       !.path = "grow", !.relocated = s.size]

\* A faulty variant: the growth is by one slot.
NewCapacityPlusOne(n) == n + 1

\* The capacity Realocate asks for.
NewCapacity(n) == IF n = 0 THEN 1 ELSE n * 2

\* The constructor argument of an Emplace: a value of its own, or a
\* reference to the element i of the Vector itself.
ByValue(x) == [ref |-> FALSE, val |-> x]
ByRef(i) == [ref |-> TRUE, slot |-> i]

\* The value the argument a denotes when it is read in the memory m, b being
\* the block of the Vector.
Arg(m, b, a) == IF a.ref THEN m.heap[b][a.slot + 1] ELSE a.val

\* Vector::Realocate(pos, args...): step 1 is the allocation, step 2 the
\* construction of the new element from the argument a, steps 3.. the
\* relocations.
RealocateArg(s, idx, a, f) ==
    LET n  == s.size
        nc == NewCapacity(n)
        nb == Allocate(s.mem, nc)
        m1 == AllocMem(s.mem, nc)
        m2 == ConstructAt(m1, nb, idx, Arg(m1, s.buf, a))
        t  == RelocThrow(f - 2)
        m3 == Relocate(m2, s.buf, 0, idx, nb, 0, t)
        m4 == Relocate(m3, s.buf, idx, n - idx, nb, idx + 1, t - idx)
        m5 == DestroyN(m4, s.buf, 0, n)
    IN  IF f = 1 THEN Thrown(s, s.mem, "realloc", "allocate")
        ELSE IF f = 2 THEN Thrown(s, Deallocate(m1, nb), "realloc", "construct")
        ELSE IF Throws(t, idx)
        THEN Thrown(s, Deallocate(DestroyAt(m3, nb, idx), nb), "realloc", "relocate")
        ELSE IF Throws(t - idx, n - idx)
        THEN Thrown(s, Deallocate(DestroyAt(m4, nb, idx), nb), "realloc", "relocate")
        ELSE [s EXCEPT !.buf = nb, !.cap = nc, !.size = n + 1,
                       !.mem = Deallocate(m5, s.buf), !.path = "realloc",
                       !.relocated = n, !.ret = Cursor(nb, idx)]

\* Realocate with an argument that is a value of its own.
Realocate(s, idx, x, f) == RealocateArg(s, idx, ByValue(x), f)

\* A faulty variant: every Emplace reallocates.
EmplaceAlwaysRealocate(s, idx, x, f) == Realocate(s, idx, x, f)

\* A faulty variant: before the end the new element is built from the
\* argument after the shift, when it is assigned to its slot.
EmplaceArgLate(s, idx, a, f) ==
    LET n   == s.size
        b   == s.buf
        m1  == MoveConstruct(s.mem, b, n - 1, b, n)
        cnt == n - 1 - idx
        m2  == MoveBackwardN(m1, b, idx, cnt, n, 0)
        m3  == [m2 EXCEPT !.heap[b][idx + 1] = Arg(m2, b, a)]
    IN  IF n = s.cap THEN RealocateArg(s, idx, a, f)
        ELSE IF f # 0 THEN Thrown(s, s.mem, "shift", "construct")
        ELSE IF idx = n
        THEN [s EXCEPT !.mem = ConstructAt(s.mem, b, n, Arg(s.mem, b, a)),
                       !.size = n + 1, !.path = "append", !.ret = Cursor(b, idx)]
        ELSE [s EXCEPT !.mem = m3, !.size = n + 1, !.path = "shift",
                       !.ret = Cursor(b, idx)]

\* Vector::Emplace(pos, args...) with pos = begin() + idx and the new element
\* built from the argument a.  Without reallocation and before the end: step
\* 1 is T tmp(args), which reads the argument, step 2 the move construction
\* of the last element into end(), then the assignments of move_backward,
\* then *ptr = std::move(tmp).
EmplaceArg(s, idx, a, f) ==
    LET n   == s.size
        b   == s.buf
        tmp == Arg(s.mem, b, a)
        m1  == MoveConstruct(s.mem, b, n - 1, b, n)
        t   == IF kind.nothrowAssign THEN 0 ELSE f - 2
        cnt == n - 1 - idx
        m2  == MoveBackwardN(m1, b, idx, cnt, n, t)
        m3  == [m2 EXCEPT !.heap[b][idx + 1] = tmp]
    IN  IF n = s.cap THEN RealocateArg(s, idx, a, f)
        ELSE IF idx = n
        THEN IF f = 1 THEN Thrown(s, s.mem, "append", "construct")
             ELSE [s EXCEPT !.mem = ConstructAt(s.mem, b, n, Arg(s.mem, b, a)),
                            !.size = n + 1, !.path = "append",
                            !.ret = Cursor(b, idx)]
        ELSE IF f = 1 THEN Thrown(s, s.mem, "shift", "construct")
        ELSE IF f = 2 /\ ~kind.nothrowMove THEN Thrown(s, s.mem, "shift", "relocate")
        ELSE IF Throws(t, cnt + 1) THEN Thrown(s, m2, "shift", "assign")
        ELSE [s EXCEPT !.mem = m3, !.size = n + 1, !.path = "shift",
                       !.ret = Cursor(b, idx)]

\* Emplace with an argument that is a value of its own.
Emplace(s, idx, x, f) == EmplaceArg(s, idx, ByValue(x), f)

\* Vector::PopBack().
PopBack(s) ==
    [s EXCEPT !.size = s.size - 1, !.mem = DestroyAt(s.mem, s.buf, s.size - 1),
              !.path = "pop"]

\* A faulty variant: the last element is dropped, whatever the position.
ErasePopOnly(s, idx, f) ==
    [PopBack(s) EXCEPT !.path = "erase", !.ret = Cursor(s.buf, idx)]

\* A faulty variant: the shift to the left starts at the first element.
EraseShiftAll(s, idx, f) ==
    [PopBack([s EXCEPT !.mem = MoveN(s.mem, s.buf, 1, s.size - 1, 0, 0)])
        EXCEPT !.path = "erase", !.ret = Cursor(s.buf, idx)]

\* Vector::Erase(pos) with pos = begin() + idx; steps 1.. are the assignments
\* of std::move.
Erase(s, idx, f) ==
    LET t   == IF kind.nothrowAssign THEN 0 ELSE f
        cnt == s.size - 1 - idx
        m1  == MoveN(s.mem, s.buf, idx + 1, cnt, idx, t)
    IN  IF Throws(t, cnt) THEN Thrown(s, m1, "erase", "assign")
        ELSE [PopBack([s EXCEPT !.mem = m1]) EXCEPT !.path = "erase",
                                                   !.ret = Cursor(s.buf, idx)]

\* A faulty variant: shrinking only lowers size_.
ResizeKeepTail(s, n, f, g) ==
    LET r  == Reserve(s, n, 0)
        m1 == UninitializedValueConstructN(r.mem, r.buf, r.size, n - r.size, 0)
    IN  IF n < s.size THEN [s EXCEPT !.size = n, !.path = "shrink"]
        ELSE IF n > s.size THEN [r EXCEPT !.mem = m1, !.size = n, !.path = "extend"]
        ELSE [s EXCEPT !.path = "same"]

\* Vector::Resize(new_size); f is the failing step of Reserve, g the failing
\* default construction.
Resize(s, n, f, g) ==
    LET r  == Reserve(s, n, f)
        m1 == UninitializedValueConstructN(r.mem, r.buf, r.size, n - r.size, g)
    IN  IF n < s.size
        THEN [s EXCEPT !.mem = DestroyN(s.mem, s.buf, n, s.size - n), !.size = n,
                       !.path = "shrink"]
        ELSE IF n > s.size
        THEN IF r.threw THEN r
             ELSE IF Throws(g, n - r.size) THEN Thrown(r, m1, "extend", "construct")
             ELSE [r EXCEPT !.mem = m1, !.size = n, !.path = "extend"]
        ELSE [s EXCEPT !.path = "same"]

\* Vector::~Vector() followed by ~RawMemory(): the elements [0, n) are
\* destroyed, then the block is released.
DestroyVector(m, b, n) == Deallocate(DestroyN(m, b, 0, n), b)

\* A faulty variant: the copy takes the source's block instead of a block of its own.
CopyOfShallow(rhs, m, f) ==
    [buf |-> rhs.buf, cap |-> rhs.cap, size |-> rhs.size, mem |-> m,
     threw |-> FALSE, at |-> "none", path |-> "copy", relocated |-> 0]

\* Vector(const Vector& other): step 1 is the allocation (there is none for an
\* empty source), steps 2.. are the copies.  A throw leaves no object behind.
CopyOf(rhs, m, f) ==
    LET n  == rhs.size
        nb == Allocate(m, n)
        m1 == AllocMem(m, n)
        t  == f - 1
        m2 == UninitializedCopyN(m1, rhs.buf, 0, n, nb, 0, t)
    IN  IF f = 1 /\ n # 0 THEN Thrown(rhs, m, "copy", "allocate")
        ELSE IF Throws(t, n) THEN Thrown(rhs, Deallocate(m2, nb), "copy", "construct")
        ELSE [buf |-> nb, cap |-> n, size |-> n, mem |-> m2, threw |-> FALSE,
              at |-> "none", path |-> "copy", relocated |-> 0]

\* Vector(size_t size): step 1 is the allocation, steps 2.. the default
\* constructions.
SizedOf(m, n, f) ==
    LET nb == Allocate(m, n)
        m1 == AllocMem(m, n)
        t  == f - 1
        m2 == UninitializedValueConstructN(m1, nb, 0, n, t)
        none == [buf |-> Null, cap |-> 0, size |-> 0, mem |-> m, threw |-> FALSE,
                 at |-> "none", path |-> "sized", relocated |-> 0]
    IN  IF f = 1 /\ n # 0 THEN Thrown(none, m, "sized", "allocate")
        ELSE IF Throws(t, n) THEN Thrown(none, Deallocate(m2, nb), "sized", "construct")
        ELSE [none EXCEPT !.buf = nb, !.cap = n, !.size = n, !.mem = m2]

\* A faulty variant: every element is destroyed, then every element of rhs
\* is copy-constructed.
AllocateOnCapacityRebuild(s, rhs, f) ==
    LET m1 == DestroyN(s.mem, s.buf, 0, s.size)
        m2 == UninitializedCopyN(m1, rhs.buf, 0, rhs.size, s.buf, 0, f)
    IN  IF Throws(f, rhs.size)
        THEN Thrown([s EXCEPT !.size = 0], m2, "reuse", "construct")
        ELSE [s EXCEPT !.mem = m2, !.size = rhs.size, !.path = "reuse"]

\* Vector::AllocateOnCapacity(rhs): steps 1.. are the copy assignments of
\* std::copy, then the copy constructions of std::uninitialized_copy.
AllocateOnCapacity(s, rhs, f) ==
    LET k  == Min(s.size, rhs.size)
        m1 == CopyN(s.mem, rhs.buf, 0, k, s.buf, 0, f)
        t  == f - k
        m2 == UninitializedCopyN(m1, rhs.buf, s.size, rhs.size - s.size,
                                 s.buf, s.size, t)
    IN  IF Throws(f, k) THEN Thrown(s, m1, "reuse", "assign")
        ELSE IF s.size > rhs.size
        THEN [s EXCEPT !.mem = DestroyN(m1, s.buf, rhs.size, s.size - rhs.size),
                       !.size = rhs.size, !.path = "reuse"]
        ELSE IF Throws(t, rhs.size - s.size) THEN Thrown(s, m2, "reuse", "construct")
        ELSE [s EXCEPT !.mem = m2, !.size = rhs.size, !.path = "reuse"]

\* A faulty variant: the left-hand side is emptied before the copy is built.
CopyAssignClearFirst(s, rhs, f) ==
    LET e == [s EXCEPT !.mem = DestroyN(s.mem, s.buf, 0, s.size), !.size = 0]
        c == CopyOf(rhs, e.mem, f)
    IN  IF rhs.size > s.cap
        THEN IF c.threw THEN Thrown(e, c.mem, "rebuild", c.at)
             ELSE [c EXCEPT !.mem = DestroyVector(c.mem, e.buf, e.size),
                            !.path = "rebuild"]
        ELSE AllocateOnCapacity(s, rhs, f)

\* Vector::operator=(const Vector& rhs) for this != &rhs: the copy-and-swap
\* branch builds rhs_copy, swaps with it and destroys it (with the old state).
CopyAssign(s, rhs, f) ==
    LET c == CopyOf(rhs, s.mem, f)
    IN  IF rhs.size > s.cap
        THEN IF c.threw THEN Thrown(s, c.mem, "rebuild", c.at)
             ELSE [c EXCEPT !.mem = DestroyVector(c.mem, s.buf, s.size),
                            !.path = "rebuild"]
        ELSE AllocateOnCapacity(s, rhs, f)

\* ------------------------------------------------------------------ actions
Op(name, r) ==
    [op |-> name, threw |-> r.threw, at |-> r.at, path |-> r.path,
     leak |-> r.mem.leaked]

\* The record of an operation that cannot throw and touches no element.
Quiet(name, p) ==
    [op |-> name, threw |-> FALSE, at |-> "none", path |-> p, leak |-> FALSE]

\* The state after a handler of v returned r.
Commit(name, v, r) ==
    /\ buf' = [buf EXCEPT ![v] = r.buf]
    /\ cap' = [cap EXCEPT ![v] = r.cap]
    /\ size' = [size EXCEPT ![v] = r.size]
    /\ heap' = r.mem.heap
    /\ last' = Op(name, r)
    /\ UNCHANGED <<kind, relocs, appends>>

\* Vector()
CallDefaultCtor(v) ==
    /\ ~alive[v]
    /\ alive' = [alive EXCEPT ![v] = TRUE]
    /\ Commit("Vector()", v, [St(v) EXCEPT !.path = "default"])

\* Vector(size_t size)
CallSizedCtor(v, n, f) ==
    /\ ~alive[v]
    /\ LET r == SizedOf(Mem, n, f)
       IN  /\ alive' = [alive EXCEPT ![v] = ~r.threw]
           /\ Commit("Vector(n)", v, r)

\* Vector(const Vector& other)
CallCopyCtor(v, o, f) ==
    /\ ~alive[v] /\ alive[o] /\ kind.copyable
    /\ LET c == CopyOf(St(o), Mem, f)
           r == IF c.threw THEN Thrown(St(v), c.mem, "copy", c.at) ELSE c
       IN  /\ alive' = [alive EXCEPT ![v] = ~r.threw]
           /\ Commit("Vector(const&)", v, r)

\* A faulty variant: size_ is copied, not exchanged with 0.
CallMoveCtorKeepSize(v, o) ==
    /\ ~alive[v] /\ alive[o]
    /\ alive' = [alive EXCEPT ![v] = TRUE]
    /\ buf' = [buf EXCEPT ![v] = buf[o], ![o] = Null]
    /\ cap' = [cap EXCEPT ![v] = cap[o], ![o] = 0]
    /\ size' = [size EXCEPT ![v] = size[o]]
    /\ last' = Quiet("Vector(&&)", "move")
    /\ UNCHANGED <<heap, kind, relocs, appends>>

\* Vector(Vector&& other): data_ is move-constructed (an empty RawMemory
\* swapped with other's), size_ is exchanged with 0.
CallMoveCtor(v, o) ==
    /\ ~alive[v] /\ alive[o]
    /\ alive' = [alive EXCEPT ![v] = TRUE]
    /\ buf' = [buf EXCEPT ![v] = buf[o], ![o] = Null]
    /\ cap' = [cap EXCEPT ![v] = cap[o], ![o] = 0]
    /\ size' = [size EXCEPT ![v] = size[o], ![o] = 0]
    /\ last' = Quiet("Vector(&&)", "move")
    /\ UNCHANGED <<heap, kind, relocs, appends>>

\* ~Vector()
CallDtor(v) ==
    /\ alive[v]
    /\ alive' = [alive EXCEPT ![v] = FALSE]
    /\ Commit("~Vector", v,
              [St(v) EXCEPT !.buf = Null, !.cap = 0, !.size = 0,
                            !.mem = DestroyVector(Mem, buf[v], size[v]),
                            !.path = "destroy"])

\* Vector::operator=(const Vector& rhs)
CallCopyAssign(v, o, f) ==
    /\ alive[v] /\ alive[o] /\ kind.copyable
    /\ Commit("operator=(const&)", v,
              IF v = o THEN [St(v) EXCEPT !.path = "self"]
              ELSE CopyAssign(St(v), St(o), f))
    /\ UNCHANGED alive

\* A faulty variant: only data_ is exchanged.
SwapDataOnly(v, o) ==
    /\ buf' = [buf EXCEPT ![v] = buf[o], ![o] = buf[v]]
    /\ cap' = [cap EXCEPT ![v] = cap[o], ![o] = cap[v]]
    /\ size' = size

\* Vector::Swap(other): data_ and size_ are exchanged.
Swap(v, o) ==
    /\ buf' = [buf EXCEPT ![v] = buf[o], ![o] = buf[v]]
    /\ cap' = [cap EXCEPT ![v] = cap[o], ![o] = cap[v]]
    /\ size' = [size EXCEPT ![v] = size[o], ![o] = size[v]]

CallSwap(v, o) ==
    /\ alive[v] /\ alive[o]
    /\ Swap(v, o)
    /\ last' = Quiet("Swap", "swap")
    /\ UNCHANGED <<alive, heap, kind, relocs, appends>>

\* Vector::operator=(Vector&& rhs)
CallMoveAssign(v, o) ==
    /\ alive[v] /\ alive[o]
    /\ IF v # o THEN Swap(v, o) ELSE UNCHANGED <<buf, cap, size>>
    /\ last' = Quiet("operator=(&&)", IF v # o THEN "move" ELSE "self")
    /\ UNCHANGED <<alive, heap, kind, relocs, appends>>

\* Vector::Reserve(n)
CallReserve(v, n, f) ==
    /\ alive[v]
    /\ Commit("Reserve", v, Reserve(St(v), n, f))
    /\ UNCHANGED alive

\* Vector::Resize(n)
CallResize(v, n, f, g) ==
    /\ alive[v]
    /\ Commit("Resize", v, Resize(St(v), n, f, g))
    /\ UNCHANGED alive

\* Vector::Emplace(begin() + idx, args...) and Insert(begin() + idx, value)
CallEmplace(v, idx, x, f) ==
    /\ alive[v] /\ idx \in 0..size[v]
    /\ Commit("Emplace", v, Emplace(St(v), idx, x, f))
    /\ UNCHANGED alive

\* Vector::Insert(begin() + idx, v[i]), PushBack(v[i]): the value is a
\* reference to the element i of the Vector itself, copied into the new
\* element.
CallEmplaceRef(v, idx, i, f) ==
    /\ alive[v] /\ idx \in 0..size[v] /\ i \in 0..(size[v] - 1)
    /\ kind.copyable
    /\ Commit("Insert(v[i])", v, EmplaceArg(St(v), idx, ByRef(i), f))
    /\ UNCHANGED alive

\* Vector::EmplaceBack(args...) and PushBack(value): Emplace(end(), ...), with
\* the element type instrumented to count the appends and the relocations.
CallEmplaceBack(v, x, f) ==
    /\ alive[v]
    /\ LET r == Emplace(St(v), size[v], x, f)
       IN  /\ buf' = [buf EXCEPT ![v] = r.buf]
           /\ cap' = [cap EXCEPT ![v] = r.cap]
           /\ size' = [size EXCEPT ![v] = r.size]
           /\ heap' = r.mem.heap
           /\ last' = Op("EmplaceBack", r)
           /\ relocs' = relocs + r.relocated
           /\ appends' = IF r.threw THEN appends ELSE appends + 1
    /\ UNCHANGED <<alive, kind>>

\* Vector::Erase(begin() + idx)
CallErase(v, idx, f) ==
    /\ alive[v] /\ idx \in 0..(size[v] - 1)
    /\ Commit("Erase", v, Erase(St(v), idx, f))
    /\ UNCHANGED alive

\* Vector::PopBack()
CallPopBack(v) ==
    /\ alive[v] /\ size[v] # 0
    /\ Commit("PopBack", v, PopBack(St(v)))
    /\ UNCHANGED alive

\* ----------------------------------------------------------- specifications
Init ==
    /\ alive = [v \in Vecs |-> FALSE]
    /\ buf = [v \in Vecs |-> Null]
    /\ cap = [v \in Vecs |-> 0]
    /\ size = [v \in Vecs |-> 0]
    /\ heap = [b \in Blocks |-> <<>>]
    /\ kind \in Kinds
    /\ last = Quiet("none", "none")
    /\ relocs = 0
    /\ appends = 0

\* The slots held by the Vector objects other than v.
OtherSlots(v) == IF \E o \in Vecs : o # v
                 THEN cap[CHOOSE o \in Vecs : o # v] ELSE 0

\* Giving v a block of c slots keeps the memory in use within the bound lim.
Room(v, c, lim) == c + OtherSlots(v) <= lim

\* The capacity of v after an Emplace.
GrownCap(v) == IF size[v] = cap[v] THEN NewCapacity(size[v]) ELSE cap[v]

\* The throwing-capable steps of the handlers, for the inputs f and g.
RelocSteps(v) == IF UseMove /\ kind.nothrowMove THEN 0 ELSE size[v]
ReserveSteps(v, n) == IF n <= cap[v] THEN 0 ELSE 1 + RelocSteps(v)
AssignSteps(n) == IF kind.nothrowAssign THEN 0 ELSE n
EmplaceSteps(v, idx) ==
    IF size[v] = cap[v] THEN 2 + RelocSteps(v)
    ELSE IF idx = size[v] THEN 1
    ELSE 2 + AssignSteps(size[v] - idx)

\* The value given to an Emplace that throws: the element never enters the
\* Vector, so one value stands for all.
AnyValue == CHOOSE x \in Values : TRUE

\* The operations on one Vector, each with every failure it can meet (a
\* Resize whose Reserve throws constructs nothing, so g is 0 then).
\* EmplaceBack(args) and PushBack(value) are Emplace(end(), ...): CallEmplace
\* with idx = size[v].
SoloStep(v) ==
    \/ CallDefaultCtor(v)
    \/ \E n \in 0..MaxSlots : \E f \in 0..(1 + n) :
          Room(v, n, MaxSlots) /\ CallSizedCtor(v, n, f)
    \/ CallDtor(v)
    \/ \E n \in 0..MaxSlots : \E f \in 0..ReserveSteps(v, n) :
          Room(v, n, MaxSlots) /\ CallReserve(v, n, f)
    \/ \E n \in 0..MaxSlots :
          \E f \in 0..(IF n > size[v] THEN ReserveSteps(v, n) ELSE 0) :
             \E g \in 0..(IF f = 0 THEN Max(0, n - size[v]) ELSE 0) :
                Room(v, n, MaxSlots) /\ CallResize(v, n, f, g)
    \/ \E idx \in 0..size[v] : \E f \in 0..EmplaceSteps(v, idx) :
          \E x \in (IF f = 0 THEN Values ELSE {AnyValue}) :
             Room(v, GrownCap(v), MaxSlots) /\ CallEmplace(v, idx, x, f)
    \/ \E idx \in 0..(size[v] - 1) : \E f \in 0..AssignSteps(size[v] - 1 - idx) :
          CallErase(v, idx, f)
    \/ CallPopBack(v)

\* The operations on one Vector that fill and empty it, none failing.
FillStep(v) ==
    \/ CallDefaultCtor(v)
    \/ CallDtor(v)
    \/ \E n \in 0..MaxSlots : Room(v, n, MaxSlots) /\ CallReserve(v, n, 0)
    \/ \E x \in Values : \E idx \in 0..size[v] :
          Room(v, GrownCap(v), MaxSlots) /\ CallEmplace(v, idx, x, 0)
    \/ \E idx \in 0..(size[v] - 1) : CallErase(v, idx, 0)
    \/ CallPopBack(v)

\* The operations on two Vectors, each with every failure it can meet
\* (v = o: self-assignment, self-swap).
PairStep(v, o) ==
    \/ \E f \in 0..(1 + size[o]) :
          Room(v, size[o], MaxSlots) /\ CallCopyCtor(v, o, f)
    \/ CallMoveCtor(v, o)
    \/ \E f \in 0..(1 + size[o]) :
          Room(v, Max(cap[v], size[o]), MaxSlots) /\ CallCopyAssign(v, o, f)
    \/ CallMoveAssign(v, o)
    \/ CallSwap(v, o)

\* Two Vectors: they are filled and emptied, copied, moved, assigned and
\* swapped.
Next ==
    \/ \E v \in Vecs : FillStep(v)
    \/ \E v, o \in Vecs : PairStep(v, o)

Spec == Init /\ [][Next]_vars

\* One Vector on its own, under every operation on one Vector.
NextSolo == SoloStep("a")

SpecSolo == Init /\ [][NextSolo]_vars

\* One Vector on its own, under every operation on one Vector, none failing.
NextOps ==
    \/ FillStep("a")
    \/ \E n \in 0..MaxSlots : CallSizedCtor("a", n, 0)
    \/ \E n \in 0..MaxSlots : CallResize("a", n, 0, 0)
    \/ \E idx \in 0..size["a"] : \E i \in 0..(size["a"] - 1) :
          Room("a", GrownCap("a"), MaxSlots) /\ CallEmplaceRef("a", idx, i, 0)

SpecOps == Init /\ [][NextOps]_vars

\* The Vector a is filled and emptied; b is constructed with a size or as a
\* copy of a, with every failure the construction can meet, and destroyed.
NextCtor ==
    \/ FillStep("a")
    \/ \E n \in 0..MaxSlots : \E f \in 0..(1 + n) :
          Room("b", n, MaxSlots) /\ CallSizedCtor("b", n, f)
    \/ \E f \in 0..(1 + size["a"]) :
          Room("b", size["a"], MaxSlots) /\ CallCopyCtor("b", "a", f)
    \/ CallDtor("b")

SpecCtor == Init /\ [][NextCtor]_vars

\* N consecutive successful appends to one Vector, starting from empty.
NextGrowth ==
    \/ ~alive["a"] /\ appends = 0 /\ CallDefaultCtor("a")
    \/ \E x \in Values : appends < MaxAppends /\ CallEmplaceBack("a", x, 0)

SpecGrowth == Init /\ [][NextGrowth]_vars

\* ------------------------------------------------------------------- claims
\* The Vector v is as it was: same block, capacity, size and elements.
Same(v) ==
    /\ buf'[v] = buf[v]
    /\ cap'[v] = cap[v]
    /\ size'[v] = size[v]
    /\ Elems(v)' = Elems(v)

\* The slots of v's block that hold a live element are exactly [0, size).
Partitioned(v) ==
    /\ size[v] <= cap[v]
    /\ \A i \in 1..cap[v] : IsLive(heap[buf[v]][i]) <=> i <= size[v]

\* C1: in every reachable state, also after an operation that threw, every
\* Vector has 0 <= size <= capacity and the live elements of its block are
\* exactly the slots [0, size).
C1_PartitionInvariant == \A v \in Vecs : alive[v] => Partitioned(v)

\* C2: an Emplace (Insert, PushBack, EmplaceBack) at size = capacity of an
\* element type relocated by copying that throws, in the allocation, in the
\* construction of the new element or in a copy of an existing element,
\* leaves the size, the capacity and every element as they were.
C2_StrongGuaranteeAtCapacity ==
    [][(~UseMove /\ last'.op = "Emplace" /\ last'.threw)
       => \A v \in Vecs :
             (alive[v] /\ size[v] = cap[v]) => Same(v) /\ heap' = heap]_vars

C2_Witness ==
    /\ ~UseMove
    /\ last.op = "Emplace" /\ last.path = "realloc" /\ last.at = "relocate"
    /\ size["a"] = 2 /\ cap["a"] = 2

\* C3: an Emplace before the end with size < capacity in which a move
\* assignment of the shift or the final assignment throws leaves size <=
\* capacity, every slot of [0, size) live and no live element outside [0, size).
C3_BasicGuaranteeInPlace ==
    (last.op = "Emplace" /\ last.path = "shift" /\ last.at = "assign")
    => \A v \in Vecs : alive[v] => Partitioned(v)

\* C4 (as stated): a move assignment between two distinct Vectors leaves the
\* source with size 0 and the destination with the source's elements.
C4_SourceEmptyAfterMoveAssign ==
    [][\A v, o \in Vecs :
          (v # o /\ CallMoveAssign(v, o))
          => /\ size'[o] = 0
             /\ size'[v] = size[o]
             /\ Elems(v)' = Elems(o)
             /\ heap' = heap]_vars

\* C4 (amended): a move assignment between two distinct Vectors exchanges
\* their blocks, capacities and sizes: the destination holds the source's
\* elements in order, the source holds the destination's former elements (it
\* is empty when the destination was), and the memory is untouched.
C4_MoveAssignExchanges ==
    [][\A v, o \in Vecs :
          (v # o /\ CallMoveAssign(v, o))
          => /\ size'[v] = size[o] /\ cap'[v] = cap[o] /\ buf'[v] = buf[o]
             /\ size'[o] = size[v] /\ cap'[o] = cap[v] /\ buf'[o] = buf[v]
             /\ Elems(v)' = Elems(o)
             /\ Elems(o)' = Elems(v)
             /\ heap' = heap]_vars

C4_Witness ==
    /\ last.op = "operator=(&&)" /\ last.path = "move"
    /\ size["a"] = 2 /\ size["b"] = 1

\* C5: the move construction of v from o leaves o with size 0, capacity 0
\* and no block, and v with o's former block, size, capacity and elements;
\* the memory is untouched (nothing allocated, constructed or destroyed).
C5_MoveCtorEmptiesSource ==
    [][\A v, o \in Vecs :
          CallMoveCtor(v, o)
          => /\ size'[o] = 0 /\ cap'[o] = 0 /\ buf'[o] = Null
             /\ size'[v] = size[o] /\ cap'[v] = cap[o] /\ buf'[v] = buf[o]
             /\ Elems(v)' = Elems(o)
             /\ heap' = heap /\ ~last'.leak]_vars

C5_Witness ==
    /\ last.op = "Vector(&&)"
    /\ \E v \in Vecs : size[v] = 2 /\ Elems(v) = <<1, 2>>
    /\ \E o \in Vecs : alive[o] /\ cap[o] = 0

\* C6: a Reserve of an element type relocated by copying that throws, in the
\* allocation or in a copy, leaves the Vector and the whole memory as they
\* were: the copies made were destroyed and the new block released.
C6_ReserveStrongGuarantee ==
    [][(~UseMove /\ last'.op = "Reserve" /\ last'.threw)
       => /\ \A v \in Vecs : alive[v] => Same(v)
          /\ heap' = heap /\ ~last'.leak]_vars

C6_Witness ==
    /\ ~UseMove
    /\ last.op = "Reserve" /\ last.at = "relocate"
    /\ size["a"] >= 2

\* C7: a copy assignment v = o with o.size > v.capacity that throws leaves
\* both Vectors and the memory as they were; one that returns leaves v with
\* o's elements in order and o as it was.
C7_CopyAssignStrongGuarantee ==
    [][last'.op = "operator=(const&)"
       => \A v, o \in Vecs : \A f \in 0..(1 + size[o]) :
             (v # o /\ size[o] > cap[v] /\ CallCopyAssign(v, o, f))
             => IF last'.threw
                THEN Same(v) /\ Same(o) /\ heap' = heap /\ ~last'.leak
                ELSE size'[v] = size[o] /\ Elems(v)' = Elems(o) /\ Same(o)]_vars

C7_Witness ==
    /\ last.op = "operator=(const&)" /\ last.path = "rebuild"
    /\ last.at = "construct"
    /\ \E v \in Vecs : size[v] = 1 /\ cap[v] = 1
    /\ \E o \in Vecs : size[o] = 2

CopyOps == {"Vector(const&)", "operator=(const&)"}
SoloOps == {"Vector()", "Vector(n)", "~Vector", "Reserve", "Resize", "Emplace",
            "Erase", "PopBack"}

\* C8: after a copy (by construction or by assignment, on either path) the
\* source is as it was and the copy holds the source's elements in a block of
\* its own (none when there are no elements), and no operation on one Vector
\* changes the block, capacity, size or elements of another.
C8_CopyIndependence ==
    [][/\ (last'.op \in CopyOps /\ ~last'.threw /\ last'.path # "self")
             => \E v, o \in Vecs :
                   /\ v # o /\ alive[o] /\ Same(o)
                   /\ alive'[v] /\ Elems(v)' = Elems(o)
                   /\ buf'[v] # buf'[o] \/ buf'[v] = Null
       /\ last'.op \in SoloOps
             => \E v \in Vecs : \A o \in Vecs \ {v} : alive[o] => Same(o)]_vars

C8_Witness ==
    /\ last.op \in CopyOps /\ ~last.threw
    /\ size["a"] = 2 /\ Elems("a") = Elems("b")
    /\ buf["a"] # buf["b"]

\* C9: a successful Emplace (Insert, PushBack, EmplaceBack) at size =
\* capacity makes the capacity max(1, 2 * capacity); one at size < capacity
\* leaves the capacity as it was.
C9_ImplicitGrowth ==
    [][last'.op = "Emplace"
       => IF last'.threw
          THEN \A v \in Vecs : size[v] < cap[v] => cap'[v] = cap[v]
          ELSE \E v \in Vecs :
                  /\ size'[v] = size[v] + 1
                  /\ cap'[v] = IF size[v] = cap[v] THEN Max(1, 2 * cap[v])
                                ELSE cap[v]]_vars

C9_Witness ==
    /\ last.op = "Emplace" /\ last.path = "realloc" /\ ~last.threw
    /\ cap["a"] = 4 /\ size["a"] = 3

\* C10: after N >= 1 consecutive successful appends to an empty Vector
\* fewer than 2 * N elements have been relocated.
C10_GrowthLaw == appends >= 1 => relocs < 2 * appends

C10_Witness == appends >= 5 /\ relocs = 7 /\ cap["a"] = 8

\* The block b is released in the next state (there is none to release when
\* b is Null).
Released(b) == b # Null => heap'[b] = <<>>

\* C11: Reserve(N) with N <= capacity changes nothing and allocates nothing;
\* with N > capacity, on success, the capacity is N, the size and the
\* elements are as they were, in a block that was free, and the old block
\* is released with every element in it destroyed.
C11_ReserveExact ==
    [][last'.op = "Reserve"
       => \A v \in Vecs : \A n \in 0..MaxSlots :
             CallReserve(v, n, 0)
             => IF n <= cap[v]
                THEN Same(v) /\ heap' = heap
                ELSE /\ cap'[v] = n /\ size'[v] = size[v]
                     /\ Elems(v)' = Elems(v)
                     /\ heap[buf'[v]] = <<>>
                     /\ Released(buf[v]) /\ ~last'.leak]_vars

C11_Witness ==
    /\ last.op = "Reserve" /\ last.path = "grow"
    /\ cap["a"] = 3 /\ Elems("a") = <<1, 2>>

\* The element type never throws from a move.
NothrowType == kind.nothrowMove /\ kind.nothrowAssign

\* C12: for an element type that does not throw, an Insert at any index P of
\* [0, size], on the reallocating and on the in-place path, followed by an
\* Erase at the returned position leaves the elements and the size the
\* Vector had before the Insert.
C12_InsertEraseRoundTrip ==
    [][(NothrowType /\ last'.op = "Emplace")
       => \A v \in Vecs : \A idx \in 0..size[v] : \A x \in Values :
             CallEmplace(v, idx, x, 0)
             => LET ins == Emplace(St(v), idx, x, 0)
                    era == Erase(ins, ins.ret.index, 0)
                IN  /\ ins.ret = Cursor(buf'[v], idx)
                    /\ ~era.threw
                    /\ era.size = size[v]
                    /\ ElemsOf(era) = Elems(v)]_vars

C12_Witness ==
    /\ NothrowType
    /\ last.op = "Emplace" /\ last.path = "shift"
    /\ Elems("a") = <<1, 2, 1>>
    /\ ElemsOf(Erase(St("a"), 1, 0)) = <<1, 1>>

\* C13: a successful Resize(N) with N < size destroys the elements [N, size)
\* and leaves the block, the capacity and the elements [0, N); with N > size
\* it leaves the old elements in order, followed by default-constructed
\* elements up to N, in a capacity of at least N (N itself when it grew);
\* with N = size it changes nothing.  The size becomes N.
C13_ResizeSemantics ==
    [][last'.op = "Resize"
       => \A v \in Vecs : \A n \in 0..MaxSlots :
             CallResize(v, n, 0, 0)
             => /\ size'[v] = n
                /\ cap'[v] = Max(cap[v], n)
                /\ \A i \in 1..Min(n, size[v]) : Elems(v)'[i] = Elems(v)[i]
                /\ \A i \in (size[v] + 1)..n : Elems(v)'[i] = DefaultValue
                /\ n <= size[v] => buf'[v] = buf[v]
                /\ \A i \in (n + 1)..size[v] : heap'[buf[v]][i] = Uninit
                /\ n = size[v] => heap' = heap
                /\ ~last'.leak]_vars

C13_Witness ==
    /\ last.op = "Resize" /\ last.path = "extend"
    /\ cap["a"] = 3 /\ Elems("a") = <<2, 0, 0>>

CtorOps == {"Vector(n)", "Vector(const&)"}

\* Every allocated block is the block of a Vector that exists.
NoStrayBlock ==
    \A b \in Blocks : heap[b] # <<>> => \E v \in Vecs : alive[v] /\ buf[v] = b

\* C14: when an element construction of Vector(N) or of the copy constructor
\* throws, the elements constructed before it have been destroyed, once
\* each, and the block has been released: no Vector was made, no block and
\* no element of the failed construction remains.
C14_CtorCleanup ==
    (last.op \in CtorOps /\ last.threw)
    => /\ ~last.leak
       /\ NoStrayBlock
       /\ \E v \in Vecs : ~alive[v] /\ buf[v] = Null /\ cap[v] = 0 /\ size[v] = 0

C14_Witness ==
    /\ last.op = "Vector(const&)" /\ last.at = "construct"
    /\ Elems("a") = <<1, 2>>
    /\ ~alive["b"]

\* The sequence s of n elements with x inserted at index p; without the
\* element at index p.
Inserted(s, n, p, x) ==
    [i \in 1..(n + 1) |-> IF i <= p THEN s[i] ELSE IF i = p + 1 THEN x ELSE s[i - 1]]
Removed(s, n, p) ==
    [i \in 1..(n - 1) |-> IF i <= p THEN s[i] ELSE s[i + 1]]

\* A Vector just default-constructed, in an empty memory.
EmptyVector ==
    [buf |-> Null, cap |-> 0, size |-> 0,
     mem |-> MemOf([b \in Blocks |-> <<>>]),
     threw |-> FALSE, at |-> "none", path |-> "none", relocated |-> 0,
     ret |-> Cursor(Null, 0)]

\* emplace_back 1, 2, 3; insert(begin() + 1, 9); erase(begin()); pop_back().
Scenario ==
    LET v1 == Emplace(EmptyVector, 0, 1, 0)
        v2 == Emplace(v1, 1, 2, 0)
        v3 == Emplace(v2, 2, 3, 0)
        v4 == Emplace(v3, 1, 9, 0)
        v5 == Erase(v4, 0, 0)
        v6 == PopBack(v5)
    IN  /\ ElemsOf(v3) = <<1, 2, 3>>
        /\ ElemsOf(v4) = <<1, 9, 2, 3>> /\ v4.ret = Cursor(v4.buf, 1)
        /\ ElemsOf(v5) = <<9, 2, 3>> /\ v5.ret = Cursor(v5.buf, 0)
        /\ ElemsOf(v6) = <<9, 2>> /\ v6.size = 2

PositionalOps == {"Emplace", "Erase", "PopBack"}

\* C15: a successful Emplace/Insert of x at index P of [0, size] yields the
\* elements before P, x, the elements from P on, and returns the position P
\* of the current block, with or without reallocation; Erase at P < size
\* yields the sequence without its element P and returns the position P;
\* PopBack yields the sequence without its last element.  The scenario
\* emplace_back 1, 2, 3; insert(begin() + 1, 9); erase(begin()); pop_back()
\* gives [1,2,3], [1,9,2,3], [9,2,3], [9,2].
C15_PositionalSemantics ==
    [][last'.op \in PositionalOps
       => /\ Scenario
          /\ \A v \in Vecs :
                /\ \A idx \in 0..size[v] : \A x \in Values :
                      CallEmplace(v, idx, x, 0)
                      => /\ size'[v] = size[v] + 1
                         /\ Elems(v)' = Inserted(Elems(v), size[v], idx, x)
                         /\ Emplace(St(v), idx, x, 0).ret = Cursor(buf'[v], idx)
                /\ \A idx \in 0..(size[v] - 1) :
                      CallErase(v, idx, 0)
                      => /\ size'[v] = size[v] - 1
                         /\ Elems(v)' = Removed(Elems(v), size[v], idx)
                         /\ Erase(St(v), idx, 0).ret = Cursor(buf'[v], idx)
                /\ CallPopBack(v)
                      => /\ size'[v] = size[v] - 1
                         /\ Elems(v)' = Removed(Elems(v), size[v], size[v] - 1)]_vars

C15_Witness ==
    /\ last.op = "Emplace" /\ last.path = "shift"
    /\ cap["a"] = 4 /\ Elems("a") = <<1, 2, 2, 1>>

\* C16: a successful copy assignment v = o with o.size <= v.capacity leaves
\* v's block and capacity, gives v the size and the elements of o, destroys
\* max(0, v.size - o.size) elements and copy-constructs max(0, o.size -
\* v.size) elements, these into raw slots, and leaves o as it was; a self
\* assignment changes nothing.
C16_CopyAssignReuse ==
    [][(last'.op = "operator=(const&)" /\ ~last'.threw)
       => \A v, o \in Vecs :
             (size[o] <= cap[v] /\ CallCopyAssign(v, o, 0))
             => IF v = o
                THEN Same(v) /\ heap' = heap
                ELSE LET m == CopyAssign(St(v), St(o), 0).mem
                     IN  /\ buf'[v] = buf[v] /\ cap'[v] = cap[v]
                         /\ size'[v] = size[o]
                         /\ Elems(v)' = Elems(o)
                         /\ Same(o)
                         /\ m.gone = Max(0, size[v] - size[o])
                         /\ m.made = Max(0, size[o] - size[v])
                         /\ \A i \in 1..cap[v] :
                               IsLive(heap'[buf[v]][i]) <=> i <= size[o]
                         /\ ~last'.leak]_vars

C16_Witness ==
    /\ last.op = "operator=(const&)" /\ last.path = "reuse" /\ ~last.threw
    /\ \E v, o \in Vecs :
          /\ v # o /\ cap[v] = 3 /\ cap[o] = 1
          /\ Elems(v) = <<2>> /\ Elems(o) = <<2>>

\* The handler result r keeps v's block and capacity, and the slots [0, p)
\* of the block hold what they held.
PrefixUntouched(v, r, p) ==
    /\ r.buf = buf[v] /\ r.cap = cap[v]
    /\ \A i \in 1..p : r.mem.heap[buf[v]][i] = heap[buf[v]][i]

\* C17: an Emplace/Insert at index P with size < capacity, an Erase at P and
\* a PopBack, whether they return or throw, keep the block and the capacity
\* and leave every slot of [0, P) as it was (for PopBack, of [0, size - 1)).
C17_PrefixFrame ==
    \A v \in Vecs :
       alive[v]
       => /\ size[v] < cap[v]
             => \A idx \in 0..size[v] : \A f \in 0..EmplaceSteps(v, idx) :
                   \A x \in (IF f = 0 THEN Values ELSE {AnyValue}) :
                      PrefixUntouched(v, Emplace(St(v), idx, x, f), idx)
          /\ \A idx \in 0..(size[v] - 1) :
                \A f \in 0..AssignSteps(size[v] - 1 - idx) :
                   PrefixUntouched(v, Erase(St(v), idx, f), idx)
          /\ size[v] # 0 => PrefixUntouched(v, PopBack(St(v)), size[v] - 1)

C17_Witness ==
    /\ last.op = "Emplace" /\ last.path = "shift" /\ last.at = "assign"
    /\ size["a"] = 2 /\ heap[buf["a"]] = <<1, 0, 2>>

\* C18: when the relocation of an existing element throws during an Emplace
\* at size = capacity, in the range before P or in the range after P, every
\* element constructed in the new block has been destroyed before the block
\* is released.
C18_NoLeakOnFailedRelocation ==
    (last.op = "Emplace" /\ last.path = "realloc" /\ last.at = "relocate")
    => ~last.leak

\* Every allocated block is the block of exactly one Vector, with the
\* Vector's capacity; a Vector that does not exist holds none.
OwnedOnce ==
    /\ NoStrayBlock
    /\ \A v, o \in Vecs : (v # o /\ buf[v] # Null) => buf[v] # buf[o]
    /\ \A v \in Vecs :
          /\ ~alive[v] => buf[v] = Null
          /\ buf[v] = Null <=> cap[v] = 0
          /\ buf[v] # Null => Len(heap[buf[v]]) = cap[v]

\* C19: in every reachable state each allocated block has exactly one
\* owner, and no operation, failed ones included, has released a block
\* twice or with a live element in it; once every Vector is destroyed no
\* block remains.
C19_ExclusiveOwnership == OwnedOnce /\ ~last.leak

\* C20: a successful Insert/PushBack/Emplace whose value is a reference to
\* the element i of the Vector itself inserts, at every index P of [0, size]
\* and for every i, the value the element i had before the call, on the
\* reallocating, the in-place shifting and the in-place append path.
C20_SelfReferenceInsert ==
    [][last'.op = "Insert(v[i])"
       => \A v \in Vecs : \A idx \in 0..size[v] : \A i \in 0..(size[v] - 1) :
             CallEmplaceRef(v, idx, i, 0)
             => /\ size'[v] = size[v] + 1
                /\ Elems(v)'[idx + 1] = Elems(v)[i + 1]
                /\ Elems(v)' = Inserted(Elems(v), size[v], idx, Elems(v)[i + 1])]_vars

C20_Witness ==
    /\ last.op = "Insert(v[i])" /\ last.path = "shift"
    /\ cap["a"] = 4 /\ Elems("a") = <<2, 1, 1, 2>>

====
